---- MODULE Spec2Model ----
(***************************************************************************)
(* Notification concurrency engine of pi_aireminder.                       *)
(*                                                                         *)
(*   AlarmSystem       src/src/alarm_system.py   (alarm cycle, tts_lock)   *)
(*   ReminderSystem    src/src/main.py           (scheduler, stop, GUI)    *)
(*   VoiceRecognition  src/src/voice_recognition.py (session machine)      *)
(*                                                                         *)
(* Time is discrete; one unit is 10 seconds, the period of the scheduler   *)
(* (main.py:242) and of the alarm loop's stop_flag.wait (alarm_system.py   *)
(* :214).  Code that does not block takes no time: the clock advances only *)
(* when every thread is blocked in a sleep, a wait, a lock or an           *)
(* utterance.  The 2 s join of stop_alarm and an utterance are shorter     *)
(* than one unit: both end inside the unit in which they started.  An      *)
(* utterance can be longer than the join.                                  *)
(***************************************************************************)
EXTENDS Integers, Sequences, FiniteSets, TLC

VARIABLES
    now,                 \* wall clock, in units of 10 s
    events,              \* ReminderSystem.events: sequence of Event records
    sched_i,             \* _event_check_loop: index of the event the pass is at, 0 = sleeping
    current_alarm_event, \* ReminderSystem.current_alarm_event (0 = None)
    is_playing,          \* AlarmSystem.is_playing
    stop_flag,           \* AlarmSystem.stop_flag (threading.Event)
    alarm_thread,        \* AlarmSystem.alarm_thread: the thread started last, 0 = None or not alive
    threads,             \* the _alarm_loop threads, by slot
    last_voice_reminder, \* AlarmSystem.last_voice_reminder (None or a time)
    current_event,       \* AlarmSystem.current_event (0 = None)
    tts_lock,            \* AlarmSystem.tts_lock is held
    async_waiting,       \* speak_async threads waiting for tts_lock
    async_speaking,      \* speak_async threads inside the speech primitive
    news_speaking,       \* the news worker is inside the speech primitive
    stop_pc,             \* the thread running _stop_alarm: "idle" or "join"
    stop_target,         \* the thread stop_alarm joins, 0 = it has exited
    stop_ev,             \* history: the event whose cycle the stop in progress was requested for
    stop_result,         \* history: how the last stop_alarm call of this time unit ended
    announced,           \* history: events whose "Reminder: <title>" utterance was started
    stopped,             \* history: events manually stopped in-window, not yet passed by the scheduler
    last_trigger,        \* history: the scheduler's last trigger_alarm call in this time unit
    stops,               \* history: number of _stop_alarm calls so far
    session_active,      \* VoiceRecognition.session_active
    last_session_time,   \* VoiceRecognition.last_session_time (None or a time)
    listen_pc,           \* the listen thread inside _process_text: "idle", "stamp" or "forward"; "stopped" = it has ended
    frag,                \* the query the listen thread is about to forward, <<>> = none
    gui_pc,              \* _run_gui_loop inside its session check: "idle", "live" or "ending"; "exited" = it has left the loop
    gui_checked,         \* history: the GUI loop has completed a session check in this time unit
    out,                 \* history: what the listen thread did with the last fragment of this time unit
    expiry_pending,      \* history: a session timeout was detected and not yet signalled
    audio_queue,         \* VoiceRecognition.audio_queue: recognized fragments not yet processed
    news_tts_queue,      \* ReminderSystem.news_tts_queue: the tasks scheduled and not yet taken
    news_tts_stop_event, \* ReminderSystem.news_tts_stop_event (threading.Event)
    news_cancel_token,   \* display._news_cancel_token, where the display has the attribute
    worker,              \* the _news_tts_worker threads, by slot: position and the task taken
    news_tts_thread,     \* ReminderSystem.news_tts_thread: slot of the worker started last, 0 = None
    auto_read_active,    \* DisplayManager.auto_read_active
    pending_auto_advance,\* DisplayManager._pending_auto_advance
    pending_gen,         \* history: the value of cancels when the pending flag was last set
    reading,             \* the callers of _read_news, each between lines 399 and 404
    cancel_pc,           \* the thread inside the news branch of _handle_voice_text
    next_task,           \* history: number of tasks scheduled so far
    cancels,             \* history: number of stop_news_tts calls so far
    doomed,              \* history: tasks that were in the queue when stop_news_tts was called
    spoken,              \* history: tasks passed to the speech primitive
    stop_heard,          \* history: a fragment with 'stop' was processed during readback
    stop_requested,      \* history: alarm loop threads alive whose cycle a stop was requested for
    marked,              \* history: ids passed to event_fetcher.mark_event_triggered
    interrupt_req,       \* history: the last _stop_alarm call has asked the speech channel to stop
    tts_failed,          \* history: alarm loop threads alive in which a synthesis error occurred
    auto_stop_after,     \* alarm_config['auto_stop_after'], in units of 10 s
    running,             \* ReminderSystem.running
    event_source         \* config['event_source']: the fetcher that was constructed

\* the variables of the voice session
voiceVars == <<session_active, last_session_time, listen_pc, frag, gui_pc,
               gui_checked, out, expiry_pending>>

\* the variables of start and stop of the system
sysVars == <<running, event_source>>

\* the variables of news readback
newsVars == <<news_tts_queue, news_tts_stop_event, news_cancel_token, worker,
              news_tts_thread, auto_read_active, pending_auto_advance,
              pending_gen, reading, cancel_pc, next_task, cancels, doomed,
              spoken, stop_heard>>

vars == <<now, events, sched_i, current_alarm_event, is_playing, stop_flag,
          alarm_thread, threads, last_voice_reminder, current_event, tts_lock,
          async_waiting, async_speaking, news_speaking, stop_pc,
          stop_target, stop_ev, stop_result, announced, stopped, last_trigger,
          stops, voiceVars, audio_queue, newsVars, stop_requested, marked,
          interrupt_req, tts_failed, auto_stop_after, sysVars>>

-----------------------------------------------------------------------------
(* Bounds of the model *)

MaxTime == 5
MaxEventTime == 1
MaxStops == 1
MaxAsync == 1

(* Program constants, in units of 10 s *)

AutoStopAfter == 4
\* an auto_stop_after longer than the first-trigger window, as the default
\* of main.py:271 (1800 s) is
LongAutoStopAfter == 6
VoiceReminderInterval == 1
WaitIncrement == 1
TriggerWindow == 3

\* None, for a field that otherwise holds a time
None == 0 - 1
NoTrigger == [ev |-> 0, re |-> FALSE, accepted |-> FALSE, since |-> 0]
EventIds == {1, 2}
\* every alarm loop thread beyond the first outlives a manual stop
AlarmThreads == 1..(MaxStops + 1)

WantPcs == {"title", "desc", "r_title", "r_desc"}
SpeakingPcs == {"title_sp", "desc_sp", "r_title_sp", "r_desc_sp"}

NoOut == [frag |-> <<>>, pre |-> FALSE, cmds |-> 0, texts |-> <<>>,
          chat |-> FALSE, news |-> FALSE]

NoThread == [pc |-> "none", ev |-> 0, desc |-> FALSE, start |-> 0, lnow |-> 0, wake |-> 0, ann |-> 0]

-----------------------------------------------------------------------------
(* Helpers *)

Alive(t) == threads[t].pc # "none"

AliveThreads == {t \in AlarmThreads : Alive(t)}

\* threading.Thread(...).start(): the new thread takes the first unused slot
FreeSlot == CHOOSE t \in AlarmThreads :
                /\ ~Alive(t)
                /\ \A u \in AlarmThreads : u < t => Alive(u)

CanAcquire_NoLock == TRUE

\* `with self.tts_lock`: a caller enters only when nobody holds the lock
CanAcquire == ~tts_lock

AutoStopReached_Never(elapsed) == FALSE

\* alarm_system.py:179  if elapsed >= auto_stop_after: break
AutoStopReached(elapsed) == elapsed >= auto_stop_after

VoiceReminderDue_Always(since) == TRUE

\* alarm_system.py:190  if time_since_last_voice >= voice_reminder_interval
VoiceReminderDue(since) == since >= VoiceReminderInterval

FirstTriggerDue_NoLowerBound(e, t) ==
    /\ e.event_time - t <= 0
    /\ ~e.triggered

\* main.py:257  -30 <= time_diff <= 0 and not event.triggered
FirstTriggerDue(e, t) ==
    LET time_diff == e.event_time - t
    IN  /\ -TriggerWindow <= time_diff
        /\ time_diff <= 0
        /\ ~e.triggered

InWindow_NoUpperBound(time_since_event) == 0 <= time_since_event

InWindow_Short(time_since_event) ==
    /\ 0 <= time_since_event
    /\ time_since_event < AutoStopAfter - 1

\* main.py:274  0 <= time_since_event < auto_stop_after
InWindow(time_since_event) ==
    /\ 0 <= time_since_event
    /\ time_since_event < auto_stop_after

\* main.py:268-274  the elif branch of _check_events
ReTriggerDue(e, t) ==
    /\ ~FirstTriggerDue(e, t)
    /\ e.triggered
    /\ ~is_playing
    /\ InWindow(t - e.event_time)

\* The alarm loop thread can take a step now (it is not blocked)
ThreadEnabled(t) ==
    \/ threads[t].pc \in {"start", "loop"}
    \/ threads[t].pc \in WantPcs /\ CanAcquire
    \/ threads[t].pc = "wait" /\ (stop_flag \/ now >= threads[t].wake)

\* An alarm loop thread that is blocked: in an utterance, on tts_lock or in wait(10)
Blocked(t) == Alive(t) /\ ~ThreadEnabled(t) /\ threads[t].pc # "after"

EventTime(id) == events[CHOOSE i \in 1..Len(events) : events[i].id = id].event_time

-----------------------------------------------------------------------------
(* AlarmSystem.trigger_alarm, alarm_system.py:121-137 *)

trigger_alarm_ClearsFlagFirst(e) ==
    IF is_playing
    THEN /\ stop_flag' = FALSE
         /\ UNCHANGED <<is_playing, alarm_thread, threads>>
    ELSE /\ is_playing' = TRUE
         /\ stop_flag' = FALSE
         /\ alarm_thread' = FreeSlot
         /\ threads' = [threads EXCEPT ![FreeSlot] =
                [pc |-> "start", ev |-> e.id, desc |-> e.desc,
                 start |-> 0, lnow |-> 0, wake |-> 0, ann |-> 0]]

trigger_alarm(e) ==
    IF is_playing
    THEN UNCHANGED <<is_playing, stop_flag, alarm_thread, threads>>
    ELSE /\ is_playing' = TRUE
         /\ stop_flag' = FALSE
         /\ alarm_thread' = FreeSlot
         /\ threads' = [threads EXCEPT ![FreeSlot] =
                [pc |-> "start", ev |-> e.id, desc |-> e.desc,
                 start |-> 0, lnow |-> 0, wake |-> 0, ann |-> 0]]

(* ReminderSystem._check_events, main.py:246-276: one event of the pass.    *)
(* _trigger_event_alarm (main.py:278-286) records the event and calls       *)
(* trigger_alarm.                                                           *)

\* main.py:61-69: the fetcher is a GoogleCalendarFetcher or an EventFetcher
EventSources == {"backend", "google_calendar"}

\* EventFetcher defines mark_event_triggered (event_fetcher.py:83-93);
\* GoogleCalendarFetcher (google_calendar_fetcher.py:21-195) defines no
\* method of that name
HasMarkEventTriggered == event_source = "backend"

\* the position of the pass after the event at sched_i
AfterEvent == IF sched_i = Len(events) THEN 0 ELSE sched_i + 1

CheckEvent ==
    /\ sched_i \in 1..Len(events)
    /\ is_playing \/ \E t \in AlarmThreads : ~Alive(t)
    /\ FirstTriggerDue(events[sched_i], now) => HasMarkEventTriggered
    /\ LET e == events[sched_i]
           first == FirstTriggerDue(e, now)
           re == ReTriggerDue(e, now)
       IN  /\ IF first \/ re
              THEN /\ current_alarm_event' = e.id
                   /\ trigger_alarm(e)
                   /\ last_trigger' = [ev |-> e.id, re |-> re,
                                       accepted |-> ~is_playing,
                                       since |-> now - e.event_time]
              ELSE UNCHANGED <<current_alarm_event, is_playing, stop_flag,
                               alarm_thread, threads, last_trigger>>
           /\ events' = IF first
                        THEN [events EXCEPT ![sched_i].triggered = TRUE]
                        ELSE events
           /\ stopped' = stopped \ {e.id}
           /\ marked' = IF first THEN marked \cup {e.id} ELSE marked
    /\ sched_i' = IF sched_i = Len(events) THEN 0 ELSE sched_i + 1
    /\ UNCHANGED <<sysVars, auto_stop_after, voiceVars, audio_queue, newsVars>>
    /\ UNCHANGED <<stop_requested, tts_failed, interrupt_req, now, last_voice_reminder, current_event, tts_lock,
                   async_waiting, async_speaking, news_speaking,
                   stop_pc, stop_target, stop_ev, stop_result, announced, stops>>

(* The same step of the pass when the call of mark_event_triggered at       *)
(* main.py:263 fails.  The backend fetcher catches the request error and    *)
(* returns False (event_fetcher.py:91-93): the pass goes on.  With the      *)
(* Google Calendar fetcher the attribute lookup raises AttributeError,      *)
(* which leaves _check_events; _event_check_loop catches it (main.py:       *)
(* 243-244), skips sleep(10) and starts the next pass if running is set.    *)

CheckEventMarkFails ==
    /\ sched_i \in 1..Len(events)
    /\ is_playing \/ \E t \in AlarmThreads : ~Alive(t)
    /\ LET e == events[sched_i]
       IN  /\ FirstTriggerDue(e, now)
           /\ current_alarm_event' = e.id
           /\ trigger_alarm(e)
           /\ last_trigger' = [ev |-> e.id, re |-> FALSE,
                               accepted |-> ~is_playing,
                               since |-> now - e.event_time]
           /\ events' = [events EXCEPT ![sched_i].triggered = TRUE]
           /\ stopped' = stopped \ {e.id}
    /\ sched_i' = IF HasMarkEventTriggered THEN AfterEvent
                  ELSE IF running THEN 1 ELSE 0
    /\ UNCHANGED <<sysVars, auto_stop_after, voiceVars, audio_queue, newsVars, marked>>
    /\ UNCHANGED <<stop_requested, tts_failed, interrupt_req, now, last_voice_reminder, current_event, tts_lock,
                   async_waiting, async_speaking, news_speaking,
                   stop_pc, stop_target, stop_ev, stop_result, announced, stops>>

-----------------------------------------------------------------------------
(* ReminderSystem._fetch_and_update_events, main.py:230-235, called by the  *)
(* GUI loop every refresh_interval (main.py:220-222): self.events becomes   *)
(* the list the event source returns.  The Google Calendar fetcher builds   *)
(* every event with triggered=False (google_calendar_fetcher.py:158-164);   *)
(* the backend fetcher returns what mark_event_triggered has stored         *)
(* (event_fetcher.py:77).  Taken here between two scheduler passes.         *)

FetchedLists ==
    {[i \in 1..Len(events) |-> [events[i] EXCEPT !.triggered = tr[i]]] :
        tr \in [1..Len(events) -> BOOLEAN]}

RefreshEvents ==
    /\ sched_i = 0
    /\ \E fetched \in FetchedLists :
          /\ \A i \in 1..Len(events) :
                fetched[i].triggered => events[i].id \in marked
          /\ events' = fetched
    /\ UNCHANGED <<sysVars, auto_stop_after, voiceVars, audio_queue, newsVars, marked>>
    /\ UNCHANGED <<stop_requested, tts_failed, interrupt_req, now, sched_i,
                   current_alarm_event, is_playing, stop_flag, alarm_thread,
                   threads, last_voice_reminder, current_event, tts_lock,
                   async_waiting, async_speaking, news_speaking, stop_pc,
                   stop_target, stop_ev, stop_result, announced, stopped,
                   last_trigger, stops>>

-----------------------------------------------------------------------------
(* AlarmSystem._alarm_loop, alarm_system.py:139-224 *)

\* lines 142-144
AlarmStart(t) ==
    /\ threads[t].pc = "start"
    /\ current_event' = threads[t].ev
    /\ last_voice_reminder' = now
    /\ threads' = [threads EXCEPT ![t].pc = "title", ![t].start = now]
    /\ UNCHANGED <<sysVars, auto_stop_after, voiceVars, audio_queue, newsVars, marked>>
    /\ UNCHANGED <<stop_requested, tts_failed, interrupt_req, now, events, sched_i, current_alarm_event, is_playing,
                   stop_flag, alarm_thread, tts_lock, async_waiting, async_speaking, news_speaking, stop_pc,
                   stop_target, stop_ev, stop_result, announced, stopped,
                   last_trigger, stops>>

\* _speak (alarm_system.py:247-268) called at lines 156, 161, 204, 206:
\* the thread takes tts_lock and enters the speech primitive
AlarmSpeakBegin(t) ==
    /\ threads[t].pc \in WantPcs
    /\ CanAcquire
    /\ tts_lock' = TRUE
    /\ threads' = [threads EXCEPT ![t].pc =
            CASE threads[t].pc = "title"   -> "title_sp"
              [] threads[t].pc = "desc"    -> "desc_sp"
              [] threads[t].pc = "r_title" -> "r_title_sp"
              [] threads[t].pc = "r_desc"  -> "r_desc_sp",
                                 ![t].ann =
            IF threads[t].pc \in {"title", "r_title"} THEN now ELSE @]
    /\ announced' = IF threads[t].pc \in {"title", "r_title"}
                    THEN announced \cup {threads[t].ev}
                    ELSE announced
    /\ UNCHANGED <<sysVars, auto_stop_after, voiceVars, audio_queue, newsVars, marked>>
    /\ UNCHANGED <<stop_requested, tts_failed, interrupt_req, now, events, sched_i, current_alarm_event, is_playing,
                   stop_flag, alarm_thread, last_voice_reminder,
                   current_event, async_waiting, async_speaking,
                   news_speaking, stop_pc, stop_target, stop_ev, stop_result,
                   stopped, last_trigger, stops>>

\* the speech primitive returns and _speak releases tts_lock; after the last
\* utterance of a re-reminder, line 207 sets last_voice_reminder = now (the
\* loop iteration's now)
AlarmSpeakEnd(t) ==
    /\ threads[t].pc \in SpeakingPcs
    /\ tts_lock' = FALSE
    /\ LET pc == threads[t].pc
           last == \/ pc = "r_desc_sp"
                   \/ pc = "r_title_sp" /\ ~threads[t].desc
       IN  /\ threads' = [threads EXCEPT ![t].pc =
                  CASE pc = "title_sp"   -> IF threads[t].desc THEN "desc" ELSE "loop"
                    [] pc = "desc_sp"    -> "loop"
                    [] pc = "r_title_sp" -> IF threads[t].desc THEN "r_desc" ELSE "after"
                    [] pc = "r_desc_sp"  -> "after"]
           /\ last_voice_reminder' = IF last THEN threads[t].lnow
                                     ELSE last_voice_reminder
    /\ UNCHANGED <<sysVars, auto_stop_after, voiceVars, audio_queue, newsVars, marked>>
    /\ UNCHANGED <<stop_requested, tts_failed, interrupt_req, now, events, sched_i, current_alarm_event, is_playing,
                   stop_flag, alarm_thread, current_event, async_waiting,
                   async_speaking, news_speaking, stop_pc, stop_target,
                   stop_ev, stop_result, announced, stopped, last_trigger, stops>>

\* the speech backend raises inside _speak: line 276 catches and logs the
\* error, tts_lock is released and _speak returns to the loop as it does
\* after an utterance
AlarmSpeakFail(t) ==
    /\ threads[t].pc \in SpeakingPcs
    /\ tts_lock' = FALSE
    /\ tts_failed' = tts_failed \cup {t}
    /\ LET pc == threads[t].pc
           last == \/ pc = "r_desc_sp"
                   \/ pc = "r_title_sp" /\ ~threads[t].desc
       IN  /\ threads' = [threads EXCEPT ![t].pc =
                  CASE pc = "title_sp"   -> IF threads[t].desc THEN "desc" ELSE "loop"
                    [] pc = "desc_sp"    -> "loop"
                    [] pc = "r_title_sp" -> IF threads[t].desc THEN "r_desc" ELSE "after"
                    [] pc = "r_desc_sp"  -> "after"]
           /\ last_voice_reminder' = IF last THEN threads[t].lnow
                                     ELSE last_voice_reminder
    /\ UNCHANGED <<sysVars, auto_stop_after, voiceVars, audio_queue, newsVars, marked>>
    /\ UNCHANGED <<stop_requested, interrupt_req, now, events, sched_i, current_alarm_event, is_playing,
                   stop_flag, alarm_thread, current_event, async_waiting,
                   async_speaking, news_speaking, stop_pc, stop_target,
                   stop_ev, stop_result, announced, stopped, last_trigger, stops>>

AlarmExit_KeepsPlaying(t) ==
    /\ is_playing' = is_playing
    /\ current_event' = 0
    /\ last_voice_reminder' = None
    /\ threads' = [threads EXCEPT ![t] = NoThread]
    /\ alarm_thread' = IF alarm_thread = t THEN 0 ELSE alarm_thread
    /\ stop_target' = IF stop_target = t THEN 0 ELSE stop_target
    /\ stop_requested' = stop_requested \ {t}
    /\ tts_failed' = tts_failed \ {t}

\* the finally clause, lines 219-224: the thread ends
AlarmExit(t) ==
    /\ is_playing' = FALSE
    /\ current_event' = 0
    /\ last_voice_reminder' = None
    /\ threads' = [threads EXCEPT ![t] = NoThread]
    /\ alarm_thread' = IF alarm_thread = t THEN 0 ELSE alarm_thread
    /\ stop_target' = IF stop_target = t THEN 0 ELSE stop_target
    /\ stop_requested' = stop_requested \ {t}
    /\ tts_failed' = tts_failed \ {t}

\* one pass through the head of the while loop, lines 173-190 and 210-214;
\* it is entered after the initial announcement and when wait(10) returns.
\* With last_voice_reminder None (cleared by another thread's finally) line
\* 185 raises TypeError, which line 216 catches.
AlarmLoop(t) ==
    /\ \/ threads[t].pc = "loop"
       \/ threads[t].pc = "wait" /\ (stop_flag \/ now >= threads[t].wake)
    /\ IF \/ stop_flag
          \/ AutoStopReached(now - threads[t].start)
          \/ last_voice_reminder = None
       THEN AlarmExit(t)
       ELSE /\ threads' = [threads EXCEPT ![t] =
                   IF VoiceReminderDue(now - last_voice_reminder)
                   THEN [@ EXCEPT !.pc = "r_title", !.lnow = now, !.wake = 0]
                   ELSE [@ EXCEPT !.pc = "wait", !.lnow = 0,
                                  !.wake = now + WaitIncrement]]
            /\ UNCHANGED <<is_playing, current_event, last_voice_reminder,
                           alarm_thread, stop_target, stop_requested,
                           tts_failed>>
    /\ UNCHANGED <<sysVars, auto_stop_after, voiceVars, audio_queue, newsVars, marked>>
    /\ UNCHANGED <<interrupt_req, now, events, sched_i, current_alarm_event, stop_flag,
                   tts_lock, async_waiting, async_speaking,
                   news_speaking, stop_pc, stop_ev, stop_result, announced,
                   stopped, last_trigger, stops>>

\* lines 210-214 after a re-reminder
AlarmAfterReminder(t) ==
    /\ threads[t].pc = "after"
    /\ IF stop_flag
       THEN AlarmExit(t)
       ELSE /\ threads' = [threads EXCEPT ![t].pc = "wait", ![t].lnow = 0,
                                          ![t].wake = now + WaitIncrement]
            /\ UNCHANGED <<is_playing, current_event, last_voice_reminder,
                           alarm_thread, stop_target, stop_requested,
                           tts_failed>>
    /\ UNCHANGED <<sysVars, auto_stop_after, voiceVars, audio_queue, newsVars, marked>>
    /\ UNCHANGED <<interrupt_req, now, events, sched_i, current_alarm_event, stop_flag,
                   tts_lock, async_waiting, async_speaking,
                   news_speaking, stop_pc, stop_ev, stop_result, announced,
                   stopped, last_trigger, stops>>

-----------------------------------------------------------------------------
(* AlarmSystem.speak_async, alarm_system.py:367-375: a new daemon thread    *)
(* that runs _speak.  stop_speaking (line 369) is a request to the speech   *)
(* backend; an utterance may end at any time in this model.                 *)

speak_async == async_waiting' = async_waiting + 1

\* a speak_async thread takes tts_lock in _speak (alarm_system.py:255)
AsyncSpeakBegin ==
    /\ async_waiting > 0
    /\ CanAcquire
    /\ tts_lock' = TRUE
    /\ async_waiting' = async_waiting - 1
    /\ async_speaking' = async_speaking + 1
    /\ UNCHANGED <<sysVars, auto_stop_after, voiceVars, audio_queue, newsVars, marked>>
    /\ UNCHANGED <<stop_requested, tts_failed, interrupt_req, now, events, sched_i, current_alarm_event, is_playing,
                   stop_flag, alarm_thread, threads, last_voice_reminder,
                   current_event, news_speaking, stop_pc, stop_target,
                   stop_ev, stop_result, announced, stopped, last_trigger, stops>>

AsyncSpeakEnd ==
    /\ async_speaking > 0
    /\ tts_lock' = FALSE
    /\ async_speaking' = async_speaking - 1
    /\ UNCHANGED <<sysVars, auto_stop_after, voiceVars, audio_queue, newsVars, marked>>
    /\ UNCHANGED <<stop_requested, tts_failed, interrupt_req, now, events, sched_i, current_alarm_event, is_playing,
                   stop_flag, alarm_thread, threads, last_voice_reminder,
                   current_event, async_waiting, news_speaking, stop_pc,
                   stop_target, stop_ev, stop_result, announced, stopped,
                   last_trigger, stops>>

\* ReminderSystem._handle_voice_text, main.py:338-339: a chat reply is spoken
ChatReply ==
    /\ async_waiting + async_speaking < MaxAsync
    /\ speak_async
    /\ UNCHANGED <<sysVars, auto_stop_after, voiceVars, audio_queue, newsVars, marked>>
    /\ UNCHANGED <<stop_requested, tts_failed, interrupt_req, now, events, sched_i, current_alarm_event, is_playing,
                   stop_flag, alarm_thread, threads, last_voice_reminder,
                   current_event, tts_lock, async_speaking,
                   news_speaking, stop_pc, stop_target, stop_ev, stop_result,
                   announced, stopped, last_trigger, stops>>

(* ReminderSystem._news_tts_worker, main.py:420: the news worker reads an   *)
(* item through AlarmSystem._speak                                          *)

NewsSpeakBegin ==
    /\ ~news_speaking
    /\ CanAcquire
    /\ tts_lock' = TRUE
    /\ news_speaking' = TRUE
    /\ UNCHANGED <<sysVars, auto_stop_after, voiceVars, audio_queue, newsVars, marked>>
    /\ UNCHANGED <<stop_requested, tts_failed, interrupt_req, now, events, sched_i, current_alarm_event, is_playing,
                   stop_flag, alarm_thread, threads, last_voice_reminder,
                   current_event, async_waiting, async_speaking, stop_pc,
                   stop_target, stop_ev, stop_result, announced, stopped,
                   last_trigger, stops>>

NewsSpeakEnd ==
    /\ news_speaking
    /\ tts_lock' = FALSE
    /\ news_speaking' = FALSE
    /\ UNCHANGED <<sysVars, auto_stop_after, voiceVars, audio_queue, newsVars, marked>>
    /\ UNCHANGED <<stop_requested, tts_failed, interrupt_req, now, events, sched_i, current_alarm_event, is_playing,
                   stop_flag, alarm_thread, threads, last_voice_reminder,
                   current_event, async_waiting, async_speaking, stop_pc,
                   stop_target, stop_ev, stop_result, announced, stopped,
                   last_trigger, stops>>

-----------------------------------------------------------------------------
(* ReminderSystem._stop_alarm (main.py:362-370) calling                     *)
(* AlarmSystem.stop_alarm (alarm_system.py:226-241).  It runs on the GUI    *)
(* thread (stop button) or on the thread that processes recognized text.    *)

IsPlayingAfterStop_Unchanged == is_playing

\* alarm_system.py:241
IsPlayingAfterStop == FALSE

\* main.py:366-370, after stop_alarm has returned
StopAlarmTail ==
    /\ current_alarm_event' = 0
    /\ interrupt_req' = TRUE
    /\ speak_async

\* stop_alarm returns at line 229: no alarm is playing
StopAlarmNotPlaying ==
    /\ stop_pc = "idle"
    /\ stops < MaxStops
    /\ ~is_playing
    /\ StopAlarmTail
    /\ stop_result' = "noop"
    /\ stops' = stops + 1
    /\ UNCHANGED <<sysVars, auto_stop_after, voiceVars, audio_queue, newsVars, marked>>
    /\ UNCHANGED <<stop_requested, tts_failed, now, events, sched_i, is_playing, stop_flag, alarm_thread,
                   threads, last_voice_reminder, current_event, tts_lock,
                   async_speaking, news_speaking, stop_pc,
                   stop_target, stop_ev, announced, stopped, last_trigger>>

\* lines 228-239: set stop_flag, then join the thread started last if alive
StopAlarmBegin ==
    /\ stop_pc = "idle"
    /\ stops < MaxStops
    /\ is_playing
    /\ stop_flag' = TRUE
    /\ stop_target' = alarm_thread
    /\ stop_ev' = IF alarm_thread # 0 THEN threads[alarm_thread].ev ELSE 0
    /\ stop_pc' = "join"
    /\ stops' = stops + 1
    /\ stop_requested' = stop_requested \cup (AliveThreads \cap {alarm_thread})
    /\ interrupt_req' = FALSE
    /\ UNCHANGED tts_failed
    /\ UNCHANGED <<sysVars, auto_stop_after, voiceVars, audio_queue, newsVars, marked>>
    /\ UNCHANGED <<now, events, sched_i, current_alarm_event, is_playing,
                   alarm_thread, threads, last_voice_reminder, current_event,
                   tts_lock, async_waiting, async_speaking,
                   news_speaking, stop_result, announced, stopped,
                   last_trigger>>

\* line 241 and the rest of _stop_alarm
StopAlarmReturn(result) ==
    /\ is_playing' = IsPlayingAfterStop
    /\ StopAlarmTail
    /\ stop_pc' = "idle"
    /\ stop_target' = 0
    /\ stop_ev' = 0
    /\ stop_result' = result
    /\ stopped' = IF stop_ev # 0 /\ InWindow(now - EventTime(stop_ev))
                  THEN stopped \cup {stop_ev}
                  ELSE stopped
    /\ UNCHANGED <<sysVars, auto_stop_after, voiceVars, audio_queue, newsVars, marked>>
    /\ UNCHANGED <<stop_requested, tts_failed, now, events, sched_i, stop_flag, alarm_thread, threads,
                   last_voice_reminder, current_event, tts_lock, async_speaking, news_speaking, announced, last_trigger, stops>>

\* join returns because the loop thread has exited (or was not alive)
StopAlarmJoined ==
    /\ stop_pc = "join"
    /\ stop_target = 0
    /\ StopAlarmReturn("joined")

\* join(timeout=2) gives up: the loop thread is still blocked
StopAlarmJoinTimeout ==
    /\ stop_pc = "join"
    /\ stop_target # 0
    /\ Blocked(stop_target)
    /\ StopAlarmReturn("timeout")

-----------------------------------------------------------------------------
(* The clock.  10 s pass once nothing can run: the scheduler sleeps         *)
(* (main.py:242), no stop_alarm call is in progress, no utterance is in     *)
(* flight and every alarm loop thread is in wait(10).                       *)

Tick ==
    /\ now < MaxTime
    /\ sched_i = 0
    /\ stop_pc = "idle"
    /\ \A t \in AlarmThreads : Alive(t) => Blocked(t)
    /\ ~(async_waiting > 0 /\ CanAcquire)
    /\ ~tts_lock
    /\ now' = now + 1
    /\ sched_i' = 1
    /\ stop_result' = "none"
    /\ last_trigger' = NoTrigger
    /\ UNCHANGED <<sysVars, auto_stop_after, voiceVars, audio_queue, newsVars, marked>>
    /\ UNCHANGED <<stop_requested, tts_failed, interrupt_req, events, current_alarm_event, is_playing, stop_flag,
                   alarm_thread, threads, last_voice_reminder, current_event,
                   tts_lock, async_waiting, async_speaking, news_speaking,
                   stop_pc, stop_target, stop_ev, announced, stopped, stops>>

-----------------------------------------------------------------------------
(* VoiceRecognition, src/src/voice_recognition.py: the session machine.     *)
(* A recognized fragment is a sequence of words; the recognizer returns     *)
(* them lower-cased, stripped and separated by single blanks, so            *)
(* `w in text` is the occurrence of the word w and text.split(w, 1)[1]      *)
(* .strip() is the sequence of the words after its first occurrence.        *)

MaxWords == 3
MaxVoiceTime == 8

\* voice_recognition.py:76, in units of 10 s
SessionTimeout == 6

\* voice_recognition.py:66
WakeWords == <<"assistant", "hellen", "pi", "hello">>

\* voice_recognition.py:71
StopCommand == "stop"

\* voice_recognition.py:280
SessionStartPhrase == "let's chat"

Words == {"assistant", "pi", "stop", "let's chat", "please"}

Fragments == UNION {[1..n -> Words] : n \in 1..MaxWords}

\* the variables the voice session leaves alone
alarmRest == <<events, sched_i, is_playing, stop_flag, alarm_thread, threads,
               last_voice_reminder, current_event, tts_lock, async_speaking,
               news_speaking, stop_pc, stop_target, stop_ev, stop_result,
               announced, stopped, last_trigger, stops, audio_queue,
               newsVars, stop_requested, marked, tts_failed, auto_stop_after,
               sysVars>>

alarmRest_NoQueue == <<events, sched_i, is_playing, stop_flag, alarm_thread,
                       threads, last_voice_reminder, current_event, tts_lock,
                       async_speaking, news_speaking, stop_pc, stop_target,
                       stop_ev, stop_result, announced, stopped, last_trigger,
                       stops, newsVars, stop_requested, marked, tts_failed,
                       auto_stop_after, sysVars>>

\* `w in text`
HasWord(text, w) == \E i \in 1..Len(text) : text[i] = w

AfterFirst_WholeText(text, w) == text

\* text.split(w, 1)[1].strip(), voice_recognition.py:275-277
AfterFirst(text, w) ==
    LET i == CHOOSE k \in 1..Len(text) :
                 /\ text[k] = w
                 /\ \A j \in 1..(k - 1) : text[j] # w
    IN  SubSeq(text, i + 1, Len(text))

HasStop_WholeFragment(text) == text = <<StopCommand>>

\* voice_recognition.py:261  if self.stop_command in text
HasStop(text) == HasWord(text, StopCommand)

\* voice_recognition.py:271-272: the wake words are tried in configured order
DetectedWakeWords(text) ==
    {k \in 1..Len(WakeWords) : HasWord(text, WakeWords[k])}

FirstWakeWord(text) ==
    WakeWords[CHOOSE k \in DetectedWakeWords(text) :
                  \A j \in DetectedWakeWords(text) : k <= j]

\* voice_recognition.py:85: the branch of is_session_active that ends the session
TimedOut ==
    /\ session_active
    /\ last_session_time # None
    /\ now - last_session_time > SessionTimeout

\* the value is_session_active returns, voice_recognition.py:78-88
is_session_active ==
    /\ session_active
    /\ last_session_time # None
    /\ ~(now - last_session_time > SessionTimeout)

\* text.startswith(prefix)
StartsWith(text, prefix) ==
    /\ Len(text) >= Len(prefix)
    /\ SubSeq(text, 1, Len(prefix)) = prefix

\* main.py:356-357: the text handed to _handle_voice_text starts with a wake
\* word followed by "news" or by "read news"; _fetch_news is then called
NewsCommand(text) ==
    \E k \in 1..Len(WakeWords) :
        \/ StartsWith(text, <<WakeWords[k], "news">>)
        \/ StartsWith(text, <<WakeWords[k], "read", "news">>)

ChatCalled_Always == TRUE

\* main.py:332-335: _handle_voice_text calls chatbot.chat(text), on the
\* thread that called on_text, when the session is live
ChatCalled == is_session_active

\* on_text(text): ReminderSystem._handle_voice_text, main.py:295-360, for a
\* text without the stop command.  It asks is_session_active (lines 322,
\* 332) and, in a live session, speaks the reply of the chatbot if there is
\* one.  With stamp, the caller has re-stamped a live session before the
\* call (voice_recognition.py:293-295).
OnText(text, stamp) ==
    /\ session_active' = (session_active /\ ~TimedOut)
    /\ expiry_pending' = (expiry_pending \/ TimedOut)
    /\ last_session_time' = IF stamp /\ is_session_active
                            THEN now
                            ELSE last_session_time
    /\ \E reply \in BOOLEAN :
        /\ reply => is_session_active
        /\ reply => async_waiting + async_speaking < MaxAsync
        /\ async_waiting' = IF reply THEN async_waiting + 1 ELSE async_waiting

\* voice_recognition.py:261-268: the stop command.  on_command('stop') is
\* _handle_voice_command (main.py:288-293), which calls _stop_alarm.
ProcessStop(text) ==
    /\ ~is_playing
    /\ async_waiting + async_speaking < MaxAsync
    /\ StopAlarmTail
    /\ session_active' = FALSE
    /\ last_session_time' = None
    /\ out' = [frag |-> text, pre |-> session_active, cmds |-> 1,
               texts |-> <<>>, chat |-> FALSE, news |-> FALSE]
    /\ UNCHANGED <<listen_pc, frag, expiry_pending>>

\* voice_recognition.py:271-290: a wake word occurs in the text
ProcessWake(text) ==
    LET query == AfterFirst(text, FirstWakeWord(text))
    IN  IF HasWord(query, SessionStartPhrase)
        THEN \* enable_session, line 93
             /\ session_active' = TRUE
             /\ listen_pc' = "stamp"
             /\ frag' = query
             /\ out' = [frag |-> text, pre |-> session_active, cmds |-> 0,
                        texts |-> <<>>, chat |-> FALSE, news |-> FALSE]
             /\ UNCHANGED <<last_session_time, expiry_pending,
                            current_alarm_event, interrupt_req, async_waiting>>
        ELSE IF query # <<>>
        THEN /\ OnText(query, FALSE)
             /\ out' = [frag |-> text, pre |-> session_active, cmds |-> 0,
                        texts |-> <<query>>, chat |-> ChatCalled,
                        news |-> NewsCommand(query)]
             /\ UNCHANGED <<listen_pc, frag, current_alarm_event, interrupt_req>>
        ELSE /\ out' = [frag |-> text, pre |-> session_active, cmds |-> 0,
                        texts |-> <<>>, chat |-> FALSE, news |-> FALSE]
             /\ UNCHANGED <<session_active, last_session_time, listen_pc,
                            frag, expiry_pending, current_alarm_event, interrupt_req,
                            async_waiting>>

ProcessPlain_NoStamp(text) ==
    /\ OnText(text, FALSE)
    /\ out' = [frag |-> text, pre |-> session_active, cmds |-> 0,
               texts |-> <<text>>, chat |-> ChatCalled,
               news |-> NewsCommand(text)]
    /\ UNCHANGED <<listen_pc, frag, current_alarm_event, interrupt_req>>

\* voice_recognition.py:292-304: neither the stop command nor a wake word
ProcessPlain(text) ==
    /\ OnText(text, TRUE)
    /\ out' = [frag |-> text, pre |-> session_active, cmds |-> 0,
               texts |-> <<text>>, chat |-> ChatCalled,
               news |-> NewsCommand(text)]
    /\ UNCHANGED <<listen_pc, frag, current_alarm_event, interrupt_req>>

\* _process_text (voice_recognition.py:257-304) called by the listen thread
\* with a recognized fragment (line 243).  Capturing and recognizing a
\* phrase takes seconds: one fragment arrives per time unit at most.
ProcessText ==
    /\ listen_pc = "idle"
    /\ out.frag = <<>>
    /\ \E text \in Fragments :
        IF HasStop(text)
        THEN ProcessStop(text)
        ELSE IF DetectedWakeWords(text) # {}
        THEN ProcessWake(text)
        ELSE ProcessPlain(text)
    /\ UNCHANGED <<now, gui_pc, gui_checked, alarmRest>>

\* enable_session, voice_recognition.py:94
EnableSessionStamp ==
    /\ listen_pc = "stamp"
    /\ last_session_time' = now
    /\ listen_pc' = "forward"
    /\ UNCHANGED <<now, session_active, frag, gui_pc, gui_checked, out,
                   expiry_pending, current_alarm_event, interrupt_req, async_waiting,
                   alarmRest>>

\* voice_recognition.py:282-285: the query is forwarded, _process_text returns
ForwardQuery ==
    /\ listen_pc = "forward"
    /\ OnText(frag, FALSE)
    /\ out' = [out EXCEPT !.texts = <<frag>>, !.chat = ChatCalled,
                          !.news = NewsCommand(frag)]
    /\ listen_pc' = "idle"
    /\ frag' = <<>>
    /\ UNCHANGED <<now, gui_pc, gui_checked, current_alarm_event, interrupt_req, alarmRest>>

(* ReminderSystem._run_gui_loop, main.py:211-217: the session check of one  *)
(* pass of the GUI loop                                                     *)

\* line 212
GuiRead ==
    /\ gui_pc = "idle"
    /\ gui_pc' = IF session_active THEN "live" ELSE "idle"
    /\ gui_checked' = IF session_active THEN gui_checked ELSE TRUE
    /\ UNCHANGED <<now, session_active, last_session_time, listen_pc, frag,
                   out, expiry_pending, current_alarm_event, interrupt_req, async_waiting,
                   alarmRest>>

\* line 213: the call of is_session_active
GuiLive ==
    /\ gui_pc = "live"
    /\ session_active' = (session_active /\ ~TimedOut)
    /\ expiry_pending' = (expiry_pending \/ TimedOut)
    /\ gui_pc' = IF is_session_active THEN "idle" ELSE "ending"
    /\ gui_checked' = IF is_session_active THEN TRUE ELSE gui_checked
    /\ UNCHANGED <<now, last_session_time, listen_pc, frag, out,
                   current_alarm_event, interrupt_req, async_waiting, alarmRest>>

\* lines 214-217: the session has ended
GuiSessionEnded ==
    /\ gui_pc = "ending"
    /\ session_active' = FALSE
    /\ last_session_time' = None
    /\ expiry_pending' = FALSE
    /\ gui_pc' = "idle"
    /\ gui_checked' = TRUE
    /\ UNCHANGED <<now, listen_pc, frag, out, current_alarm_event, interrupt_req,
                   async_waiting, alarmRest>>

(* An exception in a pass of the GUI loop, raised by display.update() at    *)
(* main.py:209: the handler logs it and leaves the loop (lines 226-228),    *)
(* and start() calls stop() (main.py:198-199, 582-595), which clears        *)
(* running, finds no alarm playing (alarm_system.py:228-229) and ends the   *)
(* listen thread, which waits for audio (voice_recognition.py:175-189);     *)
(* start() returns.                                                         *)

GuiTickError ==
    /\ running
    /\ gui_pc = "idle"
    /\ ~is_playing
    /\ listen_pc = "idle"
    /\ gui_pc' = "exited"
    /\ running' = FALSE
    /\ listen_pc' = "stopped"
    /\ UNCHANGED <<event_source, now, session_active, last_session_time,
                   frag, gui_checked, out, expiry_pending,
                   current_alarm_event, interrupt_req, async_waiting,
                   events, sched_i, is_playing, stop_flag, alarm_thread,
                   threads, last_voice_reminder, current_event, tts_lock,
                   async_speaking, news_speaking, stop_pc, stop_target,
                   stop_ev, stop_result, announced, stopped, last_trigger,
                   stops, audio_queue, newsVars, stop_requested, marked,
                   tts_failed, auto_stop_after>>

\* 10 s pass: the listen thread waits for audio, the GUI loop has run (it
\* polls every 0.1 s, main.py:224) and no utterance is in flight
VoiceTick ==
    /\ now < MaxVoiceTime
    /\ listen_pc = "idle"
    /\ gui_pc = "idle"
    /\ gui_checked
    /\ ~(async_waiting > 0 /\ CanAcquire)
    /\ ~tts_lock
    /\ now' = now + 1
    /\ gui_checked' = FALSE
    /\ out' = NoOut
    /\ UNCHANGED <<session_active, last_session_time, listen_pc, frag,
                   gui_pc, expiry_pending, current_alarm_event, interrupt_req,
                   async_waiting, alarmRest>>

-----------------------------------------------------------------------------
(* The vosk engine, the default (voice_recognition.py:42).  Its listen      *)
(* thread does not call _process_text: it puts the recognized text into     *)
(* audio_queue (lines 198-211).  process_pending_audio (lines 219-225) is   *)
(* the one reader of the queue and is "to be called from main thread"; the  *)
(* GUI loop (main.py:205-224) and DisplayManager.update                     *)
(* (display_manager.py:1185-1187) do not call it and nothing else does, so  *)
(* the program has no step that takes a fragment out.                       *)

MaxQueue == 2

\* voice_recognition.py:204-211; what the fragment says plays no part, one
\* word stands for it
VoskRecognize ==
    /\ Len(audio_queue) < MaxQueue
    /\ \E text \in {f \in Fragments : Len(f) = 1} :
           audio_queue' = Append(audio_queue, text)
    /\ UNCHANGED <<now, current_alarm_event, interrupt_req, async_waiting, voiceVars,
                   alarmRest_NoQueue>>

-----------------------------------------------------------------------------
(* News readback: ReminderSystem._read_news, _news_tts_worker and           *)
(* stop_news_tts (main.py:396-460) with the auto-read of the display        *)
(* (display_manager.py:1072-1179).  The display schedules one task per news *)
(* item, always with auto_advance=True (display_manager.py:1112).           *)

MaxTasks == 3
MaxCancels == 2
MaxWorkers == 2

\* the slots of the _news_tts_worker threads
WorkerIds == 1..MaxWorkers

\* the threads that call _read_news: the GUI thread (start_auto_read and
\* auto_advance_news) and the listen thread (_fetch_news, main.py:359)
Callers == {"gui", "listen"}

NoWorker == [pc |-> "none", task |-> 0, stale |-> FALSE, err |-> FALSE]

NoRead == [pc |-> "idle", id |-> 0, token |-> 0, gen |-> 0]

\* what the voice session, the alarm engine and the clock have, the speech
\* lock apart
newsRest == <<now, events, sched_i, current_alarm_event, is_playing,
              stop_flag, alarm_thread, threads, last_voice_reminder,
              current_event, async_waiting, async_speaking, stop_pc,
              stop_target, stop_ev, stop_result, announced, stopped,
              last_trigger, stops, voiceVars, audio_queue, stop_requested,
              marked, interrupt_req, tts_failed, auto_stop_after, sysVars>>

\* hasattr(self.display, '_news_cancel_token'): DisplayManager.__init__
\* (display_manager.py:44-53) does not create the attribute and nothing else
\* does
DisplayHasCancelToken == FALSE

\* getattr(self.display, '_news_cancel_token', 0), main.py:399, 410, 422, 435
CurrentToken == IF DisplayHasCancelToken THEN news_cancel_token ELSE 0

WorkerAlive(w) == worker[w].pc # "none"

\* main.py:401  self.news_tts_thread and self.news_tts_thread.is_alive()
ThreadAlive == news_tts_thread # 0 /\ WorkerAlive(news_tts_thread)

\* the slot a new worker thread takes
FreeWorker == CHOOSE w \in WorkerIds :
                  /\ ~WorkerAlive(w)
                  /\ \A v \in WorkerIds : v < w => WorkerAlive(v)

\* main.py:399: _read_news captures the token.  It is reached from
\* _read_current_item_auto (display_manager.py:1099-1112).
ReadNewsStamp(c) ==
    /\ reading' = [reading EXCEPT ![c] =
            [pc |-> "stamped", id |-> next_task + 1, token |-> CurrentToken,
             gen |-> cancels]]
    /\ next_task' = next_task + 1

\* start_auto_read (display_manager.py:1084-1093), called on the GUI thread
\* when the News tab is opened (line 1082) or news has been fetched
\* (main.py:394)
StartAutoRead ==
    /\ reading["gui"].pc = "idle"
    /\ ~auto_read_active
    /\ next_task < MaxTasks
    /\ auto_read_active' = TRUE
    /\ ReadNewsStamp("gui")
    /\ stop_heard' = FALSE
    /\ UNCHANGED <<news_tts_queue, news_tts_stop_event, news_cancel_token,
                   worker, news_tts_thread, pending_auto_advance,
                   pending_gen, cancel_pc, cancels, doomed, spoken, tts_lock,
                   news_speaking, newsRest>>

\* main.py:400-401: the task is appended and the caller looks whether the
\* worker thread is alive
ReadNewsEnqueue(c) ==
    /\ reading[c].pc = "stamped"
    /\ news_tts_queue' = Append(news_tts_queue,
            [id |-> reading[c].id, token |-> reading[c].token,
             gen |-> reading[c].gen])
    /\ reading' = [reading EXCEPT ![c] =
            IF ThreadAlive THEN NoRead ELSE [@ EXCEPT !.pc = "start"]]
    /\ UNCHANGED <<news_tts_stop_event, news_cancel_token, worker,
                   news_tts_thread, auto_read_active, pending_auto_advance,
                   pending_gen, cancel_pc, next_task, cancels, doomed, spoken,
                   stop_heard, tts_lock, news_speaking, newsRest>>

\* main.py:402-404: no live worker was found; the stop event is cleared and
\* a new worker thread is created and started
ReadNewsStart(c) ==
    /\ reading[c].pc = "start"
    /\ \E w \in WorkerIds : ~WorkerAlive(w)
    /\ news_tts_stop_event' = FALSE
    /\ worker' = [worker EXCEPT ![FreeWorker] = [NoWorker EXCEPT !.pc = "head"]]
    /\ news_tts_thread' = FreeWorker
    /\ reading' = [reading EXCEPT ![c] = NoRead]
    /\ UNCHANGED <<news_tts_queue, news_cancel_token, auto_read_active,
                   pending_auto_advance, pending_gen, cancel_pc, next_task,
                   cancels, doomed, spoken, stop_heard, tts_lock,
                   news_speaking, newsRest>>

\* _check_pending_updates (display_manager.py:1122-1128) on the GUI thread:
\* auto_advance_news (1145-1179) reads the next item while auto-read is on
CheckPendingUpdates ==
    /\ reading["gui"].pc = "idle"
    /\ pending_auto_advance
    /\ auto_read_active => next_task < MaxTasks
    /\ pending_auto_advance' = FALSE
    /\ pending_gen' = 0
    /\ IF auto_read_active
       THEN ReadNewsStamp("gui")
       ELSE UNCHANGED <<reading, next_task>>
    /\ UNCHANGED <<news_tts_queue, news_tts_stop_event, news_cancel_token,
                   worker, news_tts_thread, auto_read_active, cancel_pc,
                   cancels, doomed, spoken, stop_heard, tts_lock,
                   news_speaking, newsRest>>

(* _news_tts_worker, main.py:406-448.  `break` leaves the loop and the      *)
(* thread ends.                                                             *)

WorkerFrame == UNCHANGED <<news_tts_stop_event, news_cancel_token,
                           news_tts_thread, auto_read_active, reading,
                           cancel_pc, next_task, cancels, doomed, stop_heard,
                           newsRest>>

\* line 407: the loop condition
WorkerHead(w) ==
    /\ worker[w].pc = "head"
    /\ worker' = [worker EXCEPT ![w] =
            IF news_tts_queue # <<>> /\ ~news_tts_stop_event
            THEN [@ EXCEPT !.pc = "pop"]
            ELSE NoWorker]
    /\ UNCHANGED <<news_tts_queue, pending_auto_advance, pending_gen, spoken,
                   tts_lock, news_speaking>>
    /\ WorkerFrame

\* line 408: pop(0).  On an empty list it raises IndexError, outside the try
\* of line 417: the thread ends with the error.
WorkerPop(w) ==
    /\ worker[w].pc = "pop"
    /\ IF news_tts_queue # <<>>
       THEN /\ worker' = [worker EXCEPT ![w] =
                   [pc |-> "token", task |-> Head(news_tts_queue),
                    stale |-> Head(news_tts_queue).gen # cancels,
                    err |-> FALSE]]
            /\ news_tts_queue' = Tail(news_tts_queue)
       ELSE /\ worker' = [worker EXCEPT ![w] = [NoWorker EXCEPT !.err = TRUE]]
            /\ UNCHANGED news_tts_queue
    /\ UNCHANGED <<pending_auto_advance, pending_gen, spoken, tts_lock,
                   news_speaking>>
    /\ WorkerFrame

\* lines 410-413
WorkerCheckToken(w) ==
    /\ worker[w].pc = "token"
    /\ worker' = [worker EXCEPT ![w] =
            IF worker[w].task.token # CurrentToken
            THEN NoWorker
            ELSE [@ EXCEPT !.pc = "active"]]
    /\ UNCHANGED <<news_tts_queue, pending_auto_advance, pending_gen, spoken,
                   tts_lock, news_speaking>>
    /\ WorkerFrame

\* lines 414-416
WorkerCheckActive(w) ==
    /\ worker[w].pc = "active"
    /\ worker' = [worker EXCEPT ![w] =
            IF ~auto_read_active
            THEN NoWorker
            ELSE [@ EXCEPT !.pc = "speak"]]
    /\ UNCHANGED <<news_tts_queue, pending_auto_advance, pending_gen, spoken,
                   tts_lock, news_speaking>>
    /\ WorkerFrame

\* line 420: _speak takes tts_lock and enters the speech primitive
WorkerSpeakBegin(w) ==
    /\ worker[w].pc = "speak"
    /\ CanAcquire
    /\ tts_lock' = TRUE
    /\ news_speaking' = TRUE
    /\ spoken' = spoken \cup {worker[w].task.id}
    /\ worker' = [worker EXCEPT ![w].pc = "speaking"]
    /\ UNCHANGED <<news_tts_queue, pending_auto_advance, pending_gen>>
    /\ WorkerFrame

\* the utterance ends (or stop_speaking has cut it short)
WorkerSpeakEnd(w) ==
    /\ worker[w].pc = "speaking"
    /\ tts_lock' = FALSE
    /\ news_speaking' = FALSE
    /\ worker' = [worker EXCEPT ![w].pc = "after"]
    /\ UNCHANGED <<news_tts_queue, pending_auto_advance, pending_gen, spoken>>
    /\ WorkerFrame

\* lines 422-430, then sleep(2) at line 434
WorkerAfterSpeech(w) ==
    /\ worker[w].pc = "after"
    /\ worker' = [worker EXCEPT ![w] =
            IF \/ worker[w].task.token # CurrentToken
               \/ news_tts_stop_event
               \/ ~auto_read_active
            THEN NoWorker
            ELSE [@ EXCEPT !.pc = "sleep"]]
    /\ UNCHANGED <<news_tts_queue, pending_auto_advance, pending_gen, spoken,
                   tts_lock, news_speaking>>
    /\ WorkerFrame

\* lines 435-442: after the sleep, schedule_auto_advance
\* (display_manager.py:1116-1120) and back to the loop condition
WorkerAfterSleep(w) ==
    /\ worker[w].pc = "sleep"
    /\ IF \/ worker[w].task.token # CurrentToken
          \/ news_tts_stop_event
          \/ ~auto_read_active
       THEN /\ worker' = [worker EXCEPT ![w] = NoWorker]
            /\ UNCHANGED <<pending_auto_advance, pending_gen>>
       ELSE /\ worker' = [worker EXCEPT ![w] = [NoWorker EXCEPT !.pc = "head"]]
            /\ pending_auto_advance' = TRUE
            /\ pending_gen' = cancels
    /\ UNCHANGED <<news_tts_queue, spoken, tts_lock, news_speaking>>
    /\ WorkerFrame

WorkerStep(w) ==
    \/ WorkerHead(w)
    \/ WorkerPop(w)
    \/ WorkerCheckToken(w)
    \/ WorkerCheckActive(w)
    \/ WorkerSpeakBegin(w)
    \/ WorkerSpeakEnd(w)
    \/ WorkerAfterSpeech(w)
    \/ WorkerAfterSleep(w)

\* the fragments that begin with a wake word and end with "news"
NewsWords == {"assistant", "pi", "read", "news"}

NewsFragments ==
    {f \in UNION {[1..n -> NewsWords] : n \in 2..MaxWords} :
        /\ DetectedWakeWords(<<f[1]>>) # {}
        /\ f[Len(f)] = "news"}

\* _fetch_news and _on_news_fetched (main.py:372-394) on the calling thread:
\* when items were fetched, start_auto_read (display_manager.py:1084-1093)
\* turns auto-read on and goes into _read_news, unless auto-read is on
FetchNews(called) ==
    \E items \in BOOLEAN :
        IF called /\ items /\ ~auto_read_active
        THEN /\ next_task < MaxTasks
             /\ auto_read_active' = TRUE
             /\ ReadNewsStamp("listen")
             /\ stop_heard' = FALSE
        ELSE UNCHANGED <<auto_read_active, reading, next_task, stop_heard>>

\* the text _process_text hands to on_text for a fragment without the stop
\* command (voice_recognition.py:275-304)
Forwarded(text) ==
    IF DetectedWakeWords(text) # {}
    THEN AfterFirst(text, FirstWakeWord(text))
    ELSE text

\* _process_text with a fragment that speaks of news.  Fragments has no
\* such fragment: for each of its texts NewsCommand is false.
ProcessNewsText ==
    /\ listen_pc = "idle"
    /\ cancel_pc = "idle"
    /\ reading["listen"].pc = "idle"
    /\ out.frag = <<>>
    /\ \E text \in NewsFragments :
          /\ IF DetectedWakeWords(text) # {}
             THEN ProcessWake(text)
             ELSE ProcessPlain(text)
          /\ FetchNews(Forwarded(text) # <<>> /\ NewsCommand(Forwarded(text)))
    /\ UNCHANGED <<news_tts_queue, news_tts_stop_event, news_cancel_token,
                   worker, news_tts_thread, pending_auto_advance, pending_gen,
                   cancel_pc, cancels, doomed, spoken>>
    /\ UNCHANGED <<now, gui_pc, gui_checked, events, sched_i, is_playing,
                   stop_flag, alarm_thread, threads, last_voice_reminder,
                   current_event, tts_lock, async_speaking, news_speaking,
                   stop_pc, stop_target, stop_ev, stop_result, announced,
                   stopped, last_trigger, stops, audio_queue, stop_requested,
                   marked, tts_failed, auto_stop_after, sysVars>>

\* _process_text with a fragment that holds the stop command
\* (voice_recognition.py:261-268): on_command('stop') is _handle_voice_command
\* (main.py:288-293), which calls _stop_alarm; _process_text returns and
\* on_text is not called
NewsStopFragment ==
    /\ listen_pc = "idle"
    /\ reading["listen"].pc = "idle"
    /\ cancel_pc = "idle"
    /\ out.frag = <<>>
    /\ \E text \in {f \in Fragments : Len(f) = 1 /\ HasStop(f)} :
           ProcessStop(text)
    /\ stop_heard' = (stop_heard \/ auto_read_active)
    /\ UNCHANGED <<news_tts_queue, news_tts_stop_event, news_cancel_token,
                   worker, news_tts_thread, auto_read_active,
                   pending_auto_advance, pending_gen, reading, cancel_pc,
                   next_task, cancels, doomed, spoken>>
    /\ UNCHANGED <<now, gui_pc, gui_checked, events, sched_i, is_playing,
                   stop_flag, alarm_thread, threads, last_voice_reminder,
                   current_event, tts_lock, async_speaking, news_speaking,
                   stop_pc, stop_target, stop_ev, stop_result, announced,
                   stopped, last_trigger, stops, audio_queue, stop_requested,
                   marked, tts_failed, auto_stop_after, sysVars>>

(* The news branch of _handle_voice_text, main.py:306-315.  It is reached   *)
(* by a text that holds 'stop' and passes _process_text to on_text, while   *)
(* no alarm is playing.                                                     *)

\* lines 308-311: auto-read is turned off
CancelBegin ==
    /\ cancel_pc = "idle"
    /\ listen_pc = "idle"
    /\ reading["listen"].pc = "idle"
    /\ cancels < MaxCancels
    /\ ~is_playing
    /\ auto_read_active' = FALSE
    /\ cancel_pc' = "stop_news_tts"
    /\ stop_heard' = (stop_heard \/ auto_read_active)
    /\ UNCHANGED <<news_tts_queue, news_tts_stop_event, news_cancel_token,
                   worker, news_tts_thread, pending_auto_advance, pending_gen,
                   reading, next_task, cancels, doomed, spoken, tts_lock,
                   news_speaking, newsRest>>

\* stop_news_tts is called; line 452
StopNewsSet ==
    /\ cancel_pc = "stop_news_tts"
    /\ news_tts_stop_event' = TRUE
    /\ cancels' = cancels + 1
    /\ doomed' = doomed \cup
                 {news_tts_queue[i].id : i \in 1..Len(news_tts_queue)}
    /\ cancel_pc' = "clear"
    /\ UNCHANGED <<news_tts_queue, news_cancel_token, worker, news_tts_thread,
                   auto_read_active, pending_auto_advance, pending_gen,
                   reading, next_task, spoken, stop_heard, tts_lock,
                   news_speaking, newsRest>>

\* lines 453-460 and the stop_speaking request of line 314; the display has
\* no clear_pending_auto_advance
StopNewsClear ==
    /\ cancel_pc = "clear"
    /\ news_tts_queue' = <<>>
    /\ news_cancel_token' = IF DisplayHasCancelToken
                            THEN news_cancel_token + 1
                            ELSE news_cancel_token
    /\ cancel_pc' = "idle"
    /\ UNCHANGED <<news_tts_stop_event, worker, news_tts_thread,
                   auto_read_active, pending_auto_advance, pending_gen,
                   reading, next_task, cancels, doomed, spoken, stop_heard,
                   tts_lock, news_speaking, newsRest>>

-----------------------------------------------------------------------------
(* Initial state: ReminderSystem.__init__ and start() (main.py:78-97,       *)
(* 167-187), AlarmSystem.__init__ (alarm_system.py:57-65).  The event list  *)
(* is what fetch_today_events returned: two untriggered events, the first   *)
(* with a description and the second without.                               *)

EventLists ==
    {<<[id |-> 1, event_time |-> t1, desc |-> TRUE, triggered |-> FALSE],
       [id |-> 2, event_time |-> t2, desc |-> FALSE, triggered |-> FALSE]>> :
        t1 \in 0..MaxEventTime, t2 \in 0..MaxEventTime}

InitRest ==
    /\ now = 0
    /\ current_alarm_event = 0
    /\ is_playing = FALSE
    /\ stop_flag = FALSE
    /\ alarm_thread = 0
    /\ threads = [t \in AlarmThreads |-> NoThread]
    /\ last_voice_reminder = None
    /\ current_event = 0
    /\ tts_lock = FALSE
    /\ async_waiting = 0
    /\ async_speaking = 0
    /\ news_speaking = FALSE
    /\ stop_pc = "idle"
    /\ stop_target = 0
    /\ stop_ev = 0
    /\ stop_result = "none"
    /\ announced = {}
    /\ stopped = {}
    /\ last_trigger = NoTrigger
    /\ stops = 0
    /\ session_active = FALSE
    /\ last_session_time = None
    /\ listen_pc = "idle"
    /\ frag = <<>>
    /\ gui_pc = "idle"
    /\ gui_checked = FALSE
    /\ out = NoOut
    /\ expiry_pending = FALSE
    /\ audio_queue = <<>>
    /\ news_tts_queue = <<>>
    /\ news_tts_stop_event = FALSE
    /\ news_cancel_token = 0
    /\ worker = [w \in WorkerIds |-> NoWorker]
    /\ news_tts_thread = 0
    /\ auto_read_active = FALSE
    /\ pending_auto_advance = FALSE
    /\ pending_gen = 0
    /\ reading = [c \in Callers |-> NoRead]
    /\ cancel_pc = "idle"
    /\ next_task = 0
    /\ cancels = 0
    /\ doomed = {}
    /\ spoken = {}
    /\ stop_heard = FALSE
    /\ stop_requested = {}
    /\ marked = {}
    /\ interrupt_req = FALSE
    /\ tts_failed = {}
    /\ running = TRUE

MaxEventAge == 4

\* the list fetched at start also holds events of today that are over
EventListsWithPast ==
    {<<[id |-> 1, event_time |-> t1, desc |-> TRUE, triggered |-> FALSE],
       [id |-> 2, event_time |-> t2, desc |-> FALSE, triggered |-> FALSE]>> :
        t1 \in (0 - MaxEventAge)..MaxEventTime,
        t2 \in (0 - MaxEventAge)..MaxEventTime}

Init ==
    /\ events \in EventLists
    /\ sched_i = 1
    /\ auto_stop_after = AutoStopAfter
    /\ event_source = "backend"
    /\ InitRest

AlarmThreadStep(t) ==
    \/ AlarmStart(t)
    \/ AlarmSpeakBegin(t)
    \/ AlarmSpeakEnd(t)
    \/ AlarmLoop(t)
    \/ AlarmAfterReminder(t)

AlarmStep == \E t \in AlarmThreads : AlarmThreadStep(t)

Next ==
    \/ Tick
    \/ CheckEvent
    \/ AlarmStep
    \/ StopAlarmNotPlaying
    \/ StopAlarmBegin
    \/ StopAlarmJoined
    \/ StopAlarmJoinTimeout
    \/ AsyncSpeakBegin
    \/ AsyncSpeakEnd

Spec == Init /\ [][Next]_vars

\* The alarm engine together with the other producers of speech: chat
\* replies and the news worker
NextSpeech ==
    \/ Next
    \/ ChatReply
    \/ NewsSpeakBegin
    \/ NewsSpeakEnd

\* both events are due at start
InitSpeech ==
    /\ Init
    /\ \A i \in 1..Len(events) : events[i].event_time = 0

SpecSpeech == InitSpeech /\ [][NextSpeech]_vars

\* The alarm engine when nobody asks for a stop.  Every thread gets to run,
\* sleep(10) and wait(10) return, and every speak call returns.
NextAuto ==
    \/ Tick
    \/ CheckEvent
    \/ AlarmStep

SpecAuto ==
    /\ Init
    /\ [][NextAuto]_vars
    /\ WF_vars(Tick)
    /\ WF_vars(CheckEvent)
    /\ \A t \in AlarmThreads : WF_vars(AlarmThreadStep(t))

\* The same with events of any age in the list
InitSched ==
    /\ events \in EventListsWithPast
    /\ sched_i = 1
    /\ auto_stop_after = AutoStopAfter
    /\ event_source = "backend"
    /\ InitRest

SpecSched == InitSched /\ [][NextAuto]_vars

\* The alarm engine with manual stops and a speech backend that can fail;
\* both events are due at start
NextFail ==
    \/ Next
    \/ \E t \in AlarmThreads : AlarmSpeakFail(t)

SpecFail == InitSpeech /\ [][NextFail]_vars

\* The alarm engine with manual stops and the periodic refresh of the event
\* list, under a configuration whose auto_stop_after is longer than the
\* first-trigger window; both events are due at start
InitRefresh ==
    /\ events \in EventLists
    /\ \A i \in 1..Len(events) : events[i].event_time = 0
    /\ sched_i = 1
    /\ auto_stop_after = LongAutoStopAfter
    /\ event_source = "backend"
    /\ InitRest

NextRefresh ==
    \/ Next
    \/ RefreshEvents

SpecRefresh == InitRefresh /\ [][NextRefresh]_vars

\* The voice session on a day without events: the listen thread, the GUI
\* loop and the speak_async threads
InitVoice ==
    /\ events = <<>>
    /\ sched_i = 0
    /\ auto_stop_after = AutoStopAfter
    /\ event_source = "backend"
    /\ InitRest

NextVoice ==
    \/ VoiceTick
    \/ ProcessText
    \/ EnableSessionStamp
    \/ ForwardQuery
    \/ GuiRead
    \/ GuiLive
    \/ GuiSessionEnded
    \/ AsyncSpeakBegin
    \/ AsyncSpeakEnd

SpecVoice == InitVoice /\ [][NextVoice]_vars


\* The voice session with the vosk engine: the listen thread and the GUI
\* loop.  Both run for ever and the clock advances.
NextVosk ==
    \/ VoiceTick
    \/ VoskRecognize
    \/ GuiRead

SpecVosk ==
    /\ InitVoice
    /\ [][NextVosk]_vars
    /\ WF_vars(VoiceTick)
    /\ WF_vars(VoskRecognize)
    /\ WF_vars(GuiRead)

\* The scheduler with either event source and a mark_event_triggered call
\* that can fail; nobody asks for a stop
InitMark ==
    /\ events \in EventLists
    /\ sched_i = 1
    /\ auto_stop_after = AutoStopAfter
    /\ event_source \in EventSources
    /\ InitRest

NextMark ==
    \/ Tick
    \/ CheckEvent
    \/ CheckEventMarkFails
    \/ AlarmStep

SpecMark == InitMark /\ [][NextMark]_vars

\* The voice session with a GUI loop whose pass can raise an exception
NextGuiFail ==
    \/ NextVoice
    \/ GuiTickError

SpecGuiFail == InitVoice /\ [][NextGuiFail]_vars

\* News readback on a day without events: the GUI thread, the news worker,
\* the thread that handles recognized text and the speak_async threads
NextNews ==
    \/ StartAutoRead
    \/ \E c \in Callers : ReadNewsEnqueue(c)
    \/ \E c \in Callers : ReadNewsStart(c)
    \/ CheckPendingUpdates
    \/ \E w \in WorkerIds : WorkerStep(w)
    \/ CancelBegin
    \/ StopNewsSet
    \/ StopNewsClear
    \/ NewsStopFragment
    \/ AsyncSpeakBegin
    \/ AsyncSpeakEnd

SpecNews == InitVoice /\ [][NextNews]_vars

\* News readback with the voice command for news: the listen thread is a
\* second caller of _read_news
NextNewsVoice ==
    \/ NextNews
    \/ ProcessNewsText

SpecNewsVoice == InitVoice /\ [][NextNewsVoice]_vars

-----------------------------------------------------------------------------
(* Claims *)

\* C1: at every instant at most one alarm loop thread has been started and
\* has not yet exited.
C1_AtMostOneAlarmThread == Cardinality(AliveThreads) <= 1

\* Number of threads inside the external speech primitive
InSpeech ==
    Cardinality({t \in AlarmThreads : threads[t].pc \in SpeakingPcs})
        + async_speaking + (IF news_speaking THEN 1 ELSE 0)

\* C2: at every instant at most one thread (alarm loop, news worker,
\* speak_async thread) is inside the speech primitive.
C2_OneUtteranceInFlight == InSpeech <= 1

\* the news worker speaks while an alarm loop thread and a speak_async thread
\* wait for tts_lock
C2_Witness ==
    /\ news_speaking
    /\ async_waiting > 0
    /\ \E t \in AlarmThreads : threads[t].pc \in WantPcs

\* C3: when stop_alarm was entered with an alarm playing, is_playing is false
\* when the call returns, whether the join ended because the loop thread
\* exited or because it timed out.
C3_StopLeavesNotPlaying ==
    [][(stop_pc = "join" /\ stop_pc' = "idle") => ~is_playing']_vars

\* a stop has just returned after its join timed out on a loop thread that is
\* in a re-reminder utterance
C3_Witness ==
    /\ stop_result = "timeout"
    /\ ~is_playing
    /\ \E t \in AlarmThreads : threads[t].pc = "r_title_sp"

\* C4: an alarm cycle that is never manually stopped exits on its own: a
\* loop thread whose start_time + auto_stop_after lies within the modelled
\* time eventually ends, and is_playing is false when it does.
C4_AutoStopExits ==
    \A t \in AlarmThreads :
        (/\ Alive(t)
         /\ threads[t].pc # "start"
         /\ threads[t].start + AutoStopAfter <= MaxTime)
            ~> (~Alive(t) /\ ~is_playing)

\* the cycle has ended by itself: no thread, nothing playing, and its event's
\* start lies auto_stop_after back
C4_Witness ==
    /\ stops = 0
    /\ ~stop_flag
    /\ ~is_playing
    /\ AliveThreads = {}
    /\ 1 \in announced
    /\ now >= AutoStopAfter

\* C5: every event whose event_time was reached while the scheduler runs has
\* had its announcement started by the time its re-trigger window has closed
\* and no alarm thread is left for it.
C5_EveryDueEventAnnounced ==
    \A i \in 1..Len(events) :
        (/\ now - events[i].event_time >= AutoStopAfter
         /\ sched_i = 0
         /\ \A t \in AlarmThreads : threads[t].ev # events[i].id)
            => events[i].id \in announced

\* The scheduler pass is at an event that was manually stopped in its window
\* and moves on
PassReachesStopped ==
    /\ sched_i \in 1..Len(events)
    /\ events[sched_i].id \in stopped
    /\ sched_i' # sched_i

\* The step starts a new alarm cycle for the event the pass is at
StartsNewCycle ==
    /\ last_trigger'.ev = events[sched_i].id
    /\ last_trigger'.accepted
    /\ is_playing'
    /\ alarm_thread' # 0
    /\ threads'[alarm_thread'].pc = "start"
    /\ threads'[alarm_thread'].ev = events[sched_i].id
    /\ ~Alive(alarm_thread')

C7_NoReTriggerAfterWindow ==
    [][(/\ sched_i \in 1..Len(events)
        /\ sched_i' # sched_i
        /\ events[sched_i].triggered
        /\ now - events[sched_i].event_time >= AutoStopAfter)
            => (/\ threads' = threads
                /\ last_trigger' = last_trigger
                /\ is_playing' = is_playing)]_vars

\* a pass has gone over a triggered event whose window has elapsed, with no
\* alarm playing, after a manual stop
C7_Witness ==
    /\ sched_i = 0
    /\ ~is_playing
    /\ stops > 0
    /\ \E i \in 1..Len(events) :
        /\ events[i].triggered
        /\ now - events[i].event_time >= AutoStopAfter

\* C8: processing a fragment that contains the stop command emits exactly
\* one Command(stop), forwards nothing to on_text and leaves the session
\* Idle, whatever the session state was and whatever else the fragment holds.
C8_StopBeatsEverything ==
    (\E i \in 1..Len(out.frag) : out.frag[i] = "stop")
        => /\ out.cmds = 1
           /\ out.texts = <<>>
           /\ listen_pc = "idle"
           /\ ~session_active
           /\ last_session_time = None

\* a fragment with a wake word, the session-start phrase and the stop command
\* has been processed in an Active session
C8_Witness ==
    /\ out.frag = <<"pi", "let's chat", "stop">>
    /\ out.pre
    /\ out.cmds = 1

\* C9: once the GUI loop has completed a session check after a session
\* timeout was detected, the session-ended handling has run for it.
C9_ExpirySignalled ==
    (gui_checked /\ gui_pc = "idle") => ~expiry_pending

\* The fragment is a wake word, then the session-start phrase, then further
\* text without the stop command
IsChatStart(f) ==
    /\ Len(f) >= 3
    /\ \E k \in 1..Len(WakeWords) : f[1] = WakeWords[k]
    /\ f[2] = "let's chat"
    /\ \A i \in 3..Len(f) : f[i] # "stop"

IsPlainChatStart(f) ==
    /\ IsChatStart(f)
    /\ \A i \in 3..Len(f) :
        \A j, k \in 1..Len(WakeWords) :
            (f[1] = WakeWords[k] /\ j < k) => f[i] # WakeWords[j]

-----------------------------------------------------------------------------
(* Claims about news readback *)

\* C11: the tasks that are in the playback queue when stop_news_tts is
\* called (tasks 2..N, the worker not having taken them) are never passed to
\* the speech primitive, whatever the interleaving.
C11_DoomedNeverSpoken == doomed \cap spoken = {}

\* C12: a task for which stop_news_tts was called between its stamping and
\* its dequeuing is seen by the worker with a token different from its own:
\* it does not pass the token check of lines 410-413 and is not spoken.
C12_StaleTaskDropped ==
    \A w \in WorkerIds :
        worker[w].stale => worker[w].pc \notin {"active", "speak", "speaking"}

\* C13: the cancel token never decreases, and every call of stop_news_tts
\* leaves it strictly greater than it was.
C13_StopIncreasesToken ==
    [][/\ CurrentToken' >= CurrentToken
       /\ (cancel_pc = "clear" /\ cancel_pc' = "idle")
              => CurrentToken' > CurrentToken]_vars

\* C17: once a fragment with 'stop' has been processed during news readback,
\* auto-read is off and the playback queue is empty until readback is
\* started again.
C17_StopCancelsReadback ==
    stop_heard /\ cancel_pc = "idle" =>
        /\ ~auto_read_active
        /\ news_tts_queue = <<>>

-----------------------------------------------------------------------------
(* Claims about triggering and stopping *)

\* the scheduler pass calls trigger_alarm for the event it is at while an
\* alarm is playing (only the first trigger of an event can: a re-trigger
\* asks for not is_playing)
TriggerWhilePlaying ==
    /\ sched_i \in 1..Len(events)
    /\ sched_i' # sched_i
    /\ is_playing
    /\ FirstTriggerDue(events[sched_i], now)

\* C14: trigger_alarm called while is_playing starts no loop thread, leaves
\* stop_flag as it is and does not touch the running cycle: its event, its
\* start time and the time of its last reminder are unchanged.
C14_TriggerWhilePlayingIsNoOp ==
    [][TriggerWhilePlaying =>
          /\ threads' = threads
          /\ alarm_thread' = alarm_thread
          /\ stop_flag' = stop_flag
          /\ is_playing'
          /\ current_event' = current_event
          /\ last_voice_reminder' = last_voice_reminder]_vars

\* a trigger was rejected while a stop request was waiting for the cycle
C14_Witness ==
    /\ last_trigger.ev # 0
    /\ ~last_trigger.accepted
    /\ is_playing
    /\ stop_flag
    /\ \E t \in AliveThreads : threads[t].ev # last_trigger.ev

C15_StopWhenIdleIsNoOp ==
    [][(stop_pc = "idle" /\ ~is_playing /\ stops' = stops + 1) =>
          /\ is_playing' = is_playing
          /\ stop_flag' = stop_flag
          /\ threads' = threads
          /\ alarm_thread' = alarm_thread
          /\ async_waiting' = async_waiting]_vars

\* C20: a loop thread whose cycle a manual stop was requested for ends the
\* next time it comes to the stop check of its loop (lines 173-175, 210-214):
\* it does not go on to another wait or re-reminder, whatever trigger_alarm
\* has done to stop_flag in between.
C20_StoppedCycleNotRevived ==
    [][\A t \in stop_requested :
          (threads[t].pc \in {"loop", "wait", "after"}
              /\ threads'[t] # threads[t])
          => threads'[t].pc = "none"]_vars

\* C21: once stop_flag is set the alarm loop starts no new utterance: every
\* call of _speak by a loop thread finds the flag clear.  In particular the
\* description does not follow a title during which the stop arrived.
C21_NoUtteranceAfterStop ==
    [][\A t \in AlarmThreads :
          (threads[t].pc \in WantPcs /\ threads'[t].pc \in SpeakingPcs)
          => ~stop_flag]_vars

\* C22: manual stop asks the speech channel to interrupt the utterance in
\* flight before it starts to wait for the loop thread: while stop_alarm is
\* in its join, the interrupt has been requested.
C22_InterruptBeforeJoin == stop_pc = "join" => interrupt_req

LoopPass(t) ==
    /\ threads[t].pc \in {"loop", "wait"}
    /\ threads'[t] # threads[t]

C24_AnnouncingOnlyInWindow ==
    \A t \in AlarmThreads :
        threads[t].pc \in SpeakingPcs
        => now - EventTime(threads[t].ev) < AutoStopAfter

\* C26: an event whose alarm has fired and that is still inside its window
\* (0 <= now - event_time < auto_stop_after) is triggered again by the
\* scheduler pass that looks at it while no alarm is playing, also after a
\* refresh has replaced the event list.
C26_RefreshKeepsNagging ==
    [][(/\ sched_i \in 1..Len(events)
        /\ sched_i' # sched_i
        /\ events[sched_i].id \in announced
        /\ InWindow(now - events[sched_i].event_time)
        /\ ~is_playing) =>
            /\ is_playing'
            /\ last_trigger'.ev = events[sched_i].id
            /\ last_trigger'.accepted]_vars

\* C27: a trigger that the alarm system rejects because an alarm is playing
\* leaves the controller's current_alarm_event as it was.
C27_RejectedTriggerKeepsCurrent ==
    [][TriggerWhilePlaying => current_alarm_event' = current_alarm_event]_vars

-----------------------------------------------------------------------------
(* Claims about the threads of the voice path *)

C18_ChatOffListenThread == ~out.chat

-----------------------------------------------------------------------------
(* Claims about wake words and the activity time *)

\* C28: a fragment that does not start with a wake word (and does not hold
\* the stop command) is not a wake-word fragment, also when a wake word
\* occurs later in it: it is not stripped, the whole fragment is what is
\* passed on.
C28_WakeWordOnlyAsPrefix ==
    (/\ out.frag # <<>>
     /\ listen_pc = "idle"
     /\ ~HasStop(out.frag)
     /\ \A k \in 1..Len(WakeWords) : out.frag[1] # WakeWords[k])
    => out.texts = <<out.frag>>

\* the listen thread processes a fragment with neither the stop command nor
\* a wake word
PlainStep ==
    /\ out.frag = <<>>
    /\ out'.frag # <<>>
    /\ ~HasStop(out'.frag)
    /\ DetectedWakeWords(out'.frag) = {}

\* C29: in a live session (active, not timed out) a fragment with neither
\* the stop command nor a wake word re-stamps the activity time to now, is
\* forwarded whole and leaves the session active.
C29_PlainFragmentInSession ==
    [][(PlainStep /\ is_session_active) =>
          /\ last_session_time' = now
          /\ session_active'
          /\ out'.texts = <<out'.frag>>]_vars

\* a plain fragment was forwarded in a session that was enabled earlier
C29_Witness ==
    /\ out.frag # <<>>
    /\ ~HasStop(out.frag)
    /\ DetectedWakeWords(out.frag) = {}
    /\ out.pre
    /\ out.texts = <<out.frag>>
    /\ session_active
    /\ last_session_time = now
    /\ now > 1

\* C30: in a live session every fragment that is forwarded to chat handling
\* re-stamps the activity time, a fragment with a wake word included.
C30_EveryTurnRestamps ==
    [][(is_session_active /\ out'.texts # <<>> /\ out'.texts # out.texts)
          => last_session_time' = now]_vars


\* C31: enabling a session is atomic for the liveness check of the GUI loop:
\* when the check finds a session whose flag is set to be dead (and goes on
\* to disable it and to signal 'session ended'), that session has timed out;
\* a flag that is set never comes with a missing activity time.
C31_EnableAtomicForLivenessCheck ==
    [][(gui_pc = "live" /\ gui_pc' = "ending" /\ session_active) =>
           (last_session_time # None
            /\ now - last_session_time > SessionTimeout)]_vars


\* C32: a text that is forwarded while the session is not live (flag off,
\* or timed out) never reaches the chatbot: chatbot.chat is not called and
\* no reply is handed to speak_async.
C32_NoChatWhileIdle ==
    [][(out'.texts # out.texts /\ out'.texts # <<>> /\ ~is_session_active) =>
           (~out'.chat /\ async_waiting' = async_waiting)]_vars

\* a one-shot wake-word command, and a fragment without wake word, have been
\* forwarded with no session and no chat call was made
C32_Witness ==
    /\ ~out.pre
    /\ ~session_active
    /\ out.texts # <<>>
    /\ ~HasWord(out.frag, SessionStartPhrase)
    /\ ~out.chat
    /\ async_waiting = 0


-----------------------------------------------------------------------------
(* Claims about the playback worker *)

\* C33: a fragment made of a wake word followed by "news", or by
\* "read news", makes the controller call _fetch_news.
C33_NewsCommandFetches ==
    [][(/\ out.frag = <<>>
        /\ \E k \in 1..Len(WakeWords) :
              out'.frag \in {<<WakeWords[k], "news">>,
                             <<WakeWords[k], "read", "news">>}) =>
            out'.news]_vars

\* C37: at every instant at most one playback worker thread is running.
C37_AtMostOneWorker ==
    Cardinality({w \in WorkerIds : WorkerAlive(w)}) <= 1

\* C34: when the worker has popped a task that was stamped before the latest
\* cancel (its token is not the current one), it drops that task and goes
\* back to the head of its loop for the next task; it does not take the task
\* further and it does not end.
C34_StaleTaskDroppedWorkerContinues ==
    [][\A w \in WorkerIds :
          (/\ worker[w].pc = "token"
           /\ worker[w].stale \/ worker[w].task.token # CurrentToken
           /\ worker'[w] # worker[w]) => worker'[w].pc = "head"]_vars

\* C35: stop_news_tts can be called at any point of the worker's execution,
\* also between the worker's test of the queue and its pop: no worker
\* thread ends with an error.
C35_CancelNeverFailsWorker == \A w \in WorkerIds : ~worker[w].err

\* C36: no task is stranded: a task is never left in the queue with no
\* worker alive, no _read_news call under way that would start one, no
\* auto-advance pending and auto-read on (so that start_auto_read returns
\* at once): from there only a cancel removes the task.
C36_NoTaskStranded ==
    ~(/\ news_tts_queue # <<>>
      /\ \A w \in WorkerIds : worker[w].pc = "none"
      /\ \A c \in Callers : reading[c].pc = "idle"
      /\ ~pending_auto_advance
      /\ auto_read_active
      /\ cancel_pc = "idle")


\* C38: after a cancel no auto-advance comes from before it: the worker does
\* not signal schedule_auto_advance for a task that was in the queue when
\* stop_news_tts was called, and a pending flag that was set before the
\* cancel does not make the GUI thread read a further item.
C38_NoAutoAdvanceAcrossCancel ==
    [][/\ \A w \in WorkerIds :
             (worker[w].pc = "sleep" /\ worker'[w].pc = "head") =>
                 worker[w].task.id \notin doomed
       /\ (/\ pending_auto_advance
           /\ ~pending_auto_advance'
           /\ pending_gen < cancels) => next_task' = next_task]_vars


\* C39: an error raised during one pass of a periodic background loop does
\* not terminate the loop: the flag that the conditions of the event check
\* loop and of the GUI loop test stays set, and the GUI loop has not left its
\* `while`.
C39_LoopsSurviveErrors == running /\ gui_pc # "exited"

\* C40: a step of the scheduler pass that triggers an event for the first
\* time and whose mark_event_triggered call does not succeed leaves the alarm
\* playing and the event locally triggered, and the pass goes on to the event
\* after it in the list (or to its sleep after the last event).
C40_MarkFailureKeepsPass ==
    [][\A i \in 1..Len(events) :
          (/\ sched_i = i
           /\ ~events[i].triggered
           /\ events'[i].triggered
           /\ events[i].id \notin marked')
          => (/\ is_playing'
              /\ events'[i].triggered
              /\ sched_i' = (IF i = Len(events) THEN 0 ELSE i + 1))]_vars

=============================================================================
